---- MODULE Spec2Model ----
(***************************************************************************)
(* Booking lifecycle of the cocoa-code backend: the route handlers that    *)
(* create, approve and decline bookings and record payment outcomes, over  *)
(* the three tables clients, projects and payments.                        *)
(*                                                                         *)
(* A handler is modelled as a request that advances from one awaited store *)
(* or gateway call to the next.  The JavaScript between two awaits runs to *)
(* completion on the single event loop, so it is part of the step of the   *)
(* call that precedes it; requests interleave at the awaits only.          *)
(* Every awaited call may throw: the flag `fail` of a step is that input.  *)
(***************************************************************************)
EXTENDS Integers, Sequences, FiniteSets, TLC

VARIABLES
    clients,        \* rows of table clients:  [id, name, email]
    projects,       \* rows of table projects: [id, clientId, projectType, bookingMonth, status]
    payments,       \* rows of table payments: [id, projectId, paymentStatus, stripePaymentId]
    lastClientId,   \* autoIncrement counter of clients.id
    lastProjectId,  \* autoIncrement counter of projects.id
    lastPaymentId,  \* autoIncrement counter of payments.id
    intents,        \* payment intents held by the gateway: [id, projectId, status]
    events,         \* webhook events the gateway has emitted: [type, intent, projectId]
    req             \* the requests in flight and their last response, by slot

vars == <<clients, projects, payments, lastClientId, lastProjectId, lastPaymentId,
          intents, events, req>>

store == <<clients, projects, payments, lastClientId, lastProjectId, lastPaymentId>>

gateway == <<intents, events>>

-----------------------------------------------------------------------------
(* JavaScript values *)

\* `undefined`, for a body field the request does not carry
Undefined == "<undefined>"

\* SQL NULL, what `bookingMonth || null` stores
Null == "<null>"

\* !v for a string field: undefined and the empty string are falsy
Falsy(v) == v = Undefined \/ v = ""

\* !v for a string kept as a sequence of characters (clientEmail); an absent
\* field and the empty string are both the empty sequence
FalsySeq(s) == Len(s) = 0

\* [^\s@]+ : a non-empty run without whitespace and without @
NoSpaceNoAt(s) == Len(s) > 0 /\ \A i \in 1..Len(s) : s[i] \notin {" ", "@"}

\* emailRegex.test(clientEmail) with /^[^\s@]+@[^\s@]+\.[^\s@]+$/
EmailRegexTest(s) ==
    \E i \in 1..Len(s) : \E j \in 1..Len(s) :
        /\ i < j
        /\ s[i] = "@"
        /\ s[j] = "."
        /\ NoSpaceNoAt(SubSeq(s, 1, i - 1))
        /\ NoSpaceNoAt(SubSeq(s, i + 1, j - 1))
        /\ NoSpaceNoAt(SubSeq(s, j + 1, Len(s)))

-----------------------------------------------------------------------------
(* The handlers of POST /api/bookings that the repository holds *)

\* router.post('/') with the month check (part_003)
HChecked == "part_003"
\* router.post('/') of routes/bookings.js, without a month check
HRouter == "routes/bookings.js"
\* router.post('/') of routes/admin.js, month check over every status
HAdmin == "routes/admin.js"
\* app.post('/api/bookings') of server.js, with the test-mode fallback
HServer == "server.js"
\* router.post('/:id/approve') and '/:id/decline' of the second revision in
\* part_003: save, then the awaited email, in one try block
HRevision == "part_003 (second revision)"

\* the monthly limit the check compares with (bookingCount >= 4)
MaxBookings == 4

\* the handlers that test clientEmail against emailRegex
TestsEmailRegex(h) == h \in {HChecked, HRouter, HServer}

\* (mutant) only routes/admin.js keeps the month check
ChecksMonthAdminOnly(h) == h = HAdmin

\* the handlers that count the month's bookings before inserting
ChecksMonth(h) == h \in {HChecked, HAdmin}

\* (mutant) the month is counted for every projectType
IsMainProjectAnyType(projectType, bookingMonth) == ~Falsy(bookingMonth)

\* the condition under which the month is counted
IsMainProject(projectType, bookingMonth) ==
    /\ ~Falsy(projectType)
    /\ projectType # "service-only"
    /\ ~Falsy(bookingMonth)

\* Project.count({ where: { bookingMonth, status: { [Op.ne]: 'cancelled' } } })
CountNotCancelled(month) ==
    Cardinality({p \in projects : p.bookingMonth = month /\ p.status # "cancelled"})

\* Project.count({ where: { bookingMonth } })
CountAll(month) ==
    Cardinality({p \in projects : p.bookingMonth = month})

\* the count the handler's month check obtains
BookingCount(h, month) ==
    IF h = HAdmin THEN CountAll(month) ELSE CountNotCancelled(month)

\* (mutant) bookingCount > 4
FullyBookedOffByOne(bookingCount) == bookingCount > MaxBookings

\* bookingCount >= 4
FullyBooked(bookingCount) == bookingCount >= MaxBookings

\* projectType || 'service-only'  (server.js: projectType || 'custom')
StoredProjectType(h, projectType) ==
    IF ~Falsy(projectType) THEN projectType
    ELSE IF h = HServer THEN "custom" ELSE "service-only"

\* bookingMonth || null
StoredBookingMonth(bookingMonth) ==
    IF Falsy(bookingMonth) THEN Null ELSE bookingMonth

-----------------------------------------------------------------------------
(* The clients table *)

\* validate: { isEmail: true, notEmpty: true } of Client.email
IsEmail(email) == EmailRegexTest(email)

\* the model validation of a new Client row
ClientValid(name, email) == name # "" /\ name # Undefined /\ IsEmail(email)

\* (mutant) the unique index on clients.email is missing
EmailFreeNoIndex(email, exceptId) == TRUE

\* unique: true on Client.email: no other row holds the email
EmailFree(email, exceptId) ==
    \A c \in clients : c.email = email => c.id = exceptId

-----------------------------------------------------------------------------
(* Requests *)

Slots == {1, 2}

NoRows == [clients |-> {}, projects |-> {}]

Idle ==
    [op |-> "idle", h |-> "", pc |-> "idle",
     clientName |-> "", clientEmail |-> <<>>, projectType |-> "", bookingMonth |-> "",
     id |-> 0,
     bookingCount |-> -1, client |-> 0, project |-> 0, status |-> "",
     code |-> 0, error |-> "", outClientId |-> 0, outProjectId |-> 0,
     outStatus |-> "", emailSent |-> FALSE, saved |-> FALSE,
     touched |-> FALSE, storeThrew |-> FALSE, conflict |-> FALSE,
     intent |-> 0, gwStatus |-> "", payment |-> 0, event |-> "",
     paid |-> FALSE, changed |-> FALSE,
     rowsBefore |-> 0, completedBefore |-> FALSE, emailThrew |-> FALSE,
     available |-> FALSE,
     before |-> NoRows]

\* a slot takes a new request when it holds none or a finished one
Free(s) == req[s].pc \in {"idle", "done"}

InFlight(s) == ~Free(s)

\* res.status(code).json({ error })
Reply(r, code, error) == [r EXCEPT !.pc = "done", !.code = code, !.error = error]

\* the ids of the test-mode reply ('PROJ-' + Date.now(), 'CLIENT-' + Date.now()):
\* no row id
Synthetic == -1

\* an awaited store call of the request was issued / threw
Touch(r) == [r EXCEPT !.touched = TRUE]
Threw(r) == [r EXCEPT !.touched = TRUE, !.storeThrew = TRUE]

\* what a failed store call of findOrCreate or Project.create leads to
StoreFailure(r, error) ==
    CASE r.h = HServer ->
            \* catch (dbError): fall through to the test-mode reply
            [Threw(r) EXCEPT !.pc = "done", !.code = 201, !.error = "",
                      !.outClientId = Synthetic, !.outProjectId = Synthetic,
                      !.emailSent = FALSE]
      [] r.h = HAdmin -> Reply(Threw(r), 500, "internal")
      [] OTHER -> Reply(Threw(r), 500, error)

Init ==
    /\ clients = {}
    /\ projects = {}
    /\ payments = {}
    /\ lastClientId = 0
    /\ lastProjectId = 0
    /\ lastPaymentId = 0
    /\ intents = {}
    /\ events = {}
    /\ req = [s \in Slots |-> Idle]

-----------------------------------------------------------------------------
(* POST /api/bookings *)

\* the request arrives: destructuring, validation, and the choice of the
\* first awaited call
ReceiveBooking(s, h, clientName, clientEmail, projectType, bookingMonth) ==
    /\ Free(s)
    /\ LET r == [Idle EXCEPT !.op = "create", !.h = h,
                             !.clientName = clientName, !.clientEmail = clientEmail,
                             !.projectType = projectType, !.bookingMonth = bookingMonth,
                             !.before = [clients |-> clients, projects |-> projects]]
       IN req' = [req EXCEPT ![s] =
            IF Falsy(clientName) \/ FalsySeq(clientEmail)
              THEN Reply(r, 400, "required")
            ELSE IF TestsEmailRegex(h) /\ ~EmailRegexTest(clientEmail)
              THEN Reply(r, 400, "invalid_email")
            ELSE IF ChecksMonth(h) /\ IsMainProject(projectType, bookingMonth)
              THEN [r EXCEPT !.pc = "count"]
            ELSE [r EXCEPT !.pc = "findClient"]]
    /\ UNCHANGED <<store, gateway>>

\* (mutant) the count is awaited outside the inner try: a throw reaches the
\* handler's catch and is answered 500
CountBookingsAborts(s, fail) ==
    /\ req[s].op = "create"
    /\ req[s].pc = "count"
    /\ LET r == Touch(req[s])
           n == BookingCount(r.h, r.bookingMonth)
       IN req' = [req EXCEPT ![s] =
            IF fail THEN Reply(Threw(r), 500, "internal")
            ELSE IF FullyBooked(n)
              THEN Reply([r EXCEPT !.bookingCount = n], 400, "fully_booked")
            ELSE [r EXCEPT !.bookingCount = n, !.pc = "findClient"]]
    /\ UNCHANGED <<store, gateway>>

\* await Project.count(...) and the comparison with the limit
CountBookings(s, fail) ==
    /\ req[s].op = "create"
    /\ req[s].pc = "count"
    /\ LET r == Touch(req[s])
           n == BookingCount(r.h, r.bookingMonth)
       IN req' = [req EXCEPT ![s] =
            IF fail
              THEN IF r.h = HChecked
                     THEN [Threw(r) EXCEPT !.pc = "findClient"]   \* catch: "continuing"
                     ELSE Reply(Threw(r), 500, "internal")
            ELSE IF FullyBooked(n)
              THEN Reply([r EXCEPT !.bookingCount = n], 400, "fully_booked")
            ELSE [r EXCEPT !.bookingCount = n, !.pc = "findClient"]]
    /\ UNCHANGED <<store, gateway>>

\* (mutant) an upsert in place of findOrCreate: the row found takes the
\* clientName of the request
FindClientUpsert(s, fail) ==
    /\ req[s].op = "create"
    /\ req[s].pc = "findClient"
    /\ LET r == Touch(req[s])
           found == {c \in clients : c.email = r.clientEmail}
       IN /\ req' = [req EXCEPT ![s] =
                IF fail THEN StoreFailure(r, "client_failed")
                ELSE IF found # {}
                  THEN [r EXCEPT !.client = (CHOOSE c \in found : TRUE).id,
                                 !.pc = "createProject"]
                ELSE [r EXCEPT !.pc = "insertClient"]]
          /\ clients' = IF fail THEN clients
                        ELSE {IF c \in found THEN [c EXCEPT !.name = r.clientName] ELSE c :
                                c \in clients}
    /\ UNCHANGED <<projects, payments, lastClientId, lastProjectId, lastPaymentId, gateway>>

\* Client.findOrCreate, the SELECT: where: { email: clientEmail }
FindClient(s, fail) ==
    /\ req[s].op = "create"
    /\ req[s].pc = "findClient"
    /\ LET r == Touch(req[s])
           found == {c \in clients : c.email = r.clientEmail}
       IN req' = [req EXCEPT ![s] =
            IF fail THEN StoreFailure(r, "client_failed")
            ELSE IF found # {}
              THEN [r EXCEPT !.client = (CHOOSE c \in found : TRUE).id,
                             !.pc = "createProject"]
            ELSE [r EXCEPT !.pc = "insertClient"]]
    /\ UNCHANGED <<store, gateway>>

\* Client.findOrCreate, the INSERT with defaults { name, email }.  When the
\* unique index rejects the row (another request inserted the email after
\* the SELECT), findOrCreate either reads the row that won (adopt) or throws.
InsertClient(s, fail, adopt) ==
    /\ req[s].op = "create"
    /\ req[s].pc = "insertClient"
    /\ LET r == req[s]
           row == [id |-> lastClientId + 1, name |-> r.clientName, email |-> r.clientEmail]
           held == {c \in clients : c.email = r.clientEmail}
       IN IF fail \/ ~ClientValid(r.clientName, r.clientEmail)
            THEN /\ req' = [req EXCEPT ![s] = StoreFailure(r, "client_failed")]
                 /\ UNCHANGED <<clients, lastClientId>>
          ELSE IF EmailFree(r.clientEmail, 0)
            THEN /\ clients' = clients \cup {row}
                 /\ lastClientId' = lastClientId + 1
                 /\ req' = [req EXCEPT ![s] =
                        [r EXCEPT !.client = row.id, !.pc = "createProject"]]
          ELSE /\ req' = [req EXCEPT ![s] =
                        IF adopt /\ held # {}
                          THEN [r EXCEPT !.client = (CHOOSE c \in held : TRUE).id,
                                         !.conflict = TRUE,
                                         !.pc = "createProject"]
                          ELSE StoreFailure([r EXCEPT !.conflict = TRUE], "client_failed")]
               /\ UNCHANGED <<clients, lastClientId>>
    /\ UNCHANGED <<projects, payments, lastProjectId, lastPaymentId, gateway>>

\* (mutant) projectData without status 'pending': the row starts approved
ProjectDataApproved(r, id) ==
    [id |-> id,
     clientId |-> r.client,
     projectType |-> StoredProjectType(r.h, r.projectType),
     bookingMonth |-> StoredBookingMonth(r.bookingMonth),
     status |-> "approved"]

\* projectData: clientId: client.id, status 'pending' (the column default
\* where the handler does not set it), and the id the insert assigns
ProjectData(r, id) ==
    [id |-> id,
     clientId |-> r.client,
     projectType |-> StoredProjectType(r.h, r.projectType),
     bookingMonth |-> StoredBookingMonth(r.bookingMonth),
     status |-> "pending"]

\* await Project.create(projectData); clientId is a foreign key into clients
CreateProject(s, fail) ==
    /\ req[s].op = "create"
    /\ req[s].pc = "createProject"
    /\ LET r == req[s]
           row == ProjectData(r, lastProjectId + 1)
       IN IF fail \/ ~(\E c \in clients : c.id = r.client)
            THEN /\ req' = [req EXCEPT ![s] = StoreFailure(r, "project_failed")]
                 /\ UNCHANGED <<projects, lastProjectId>>
          ELSE /\ projects' = projects \cup {row}
               /\ lastProjectId' = lastProjectId + 1
               /\ req' = [req EXCEPT ![s] =
                    [r EXCEPT !.project = row.id, !.saved = TRUE,
                              !.pc = IF r.h = HAdmin
                                       THEN (IF Falsy(r.bookingMonth) THEN "respond" ELSE "recount")
                                       ELSE "email"]]
    /\ UNCHANGED <<clients, payments, lastClientId, lastPaymentId, gateway>>

\* res.status(201).json({ projectId: project.id, clientId: client.id, ... })
Created(r, emailSent) ==
    [r EXCEPT !.pc = "done", !.code = 201, !.error = "",
              !.outProjectId = r.project, !.outClientId = r.client,
              !.outStatus = "pending", !.emailSent = emailSent]

\* await sendBookingConfirmation(...) inside its own try/catch, then the
\* 201 response
SendBookingConfirmation(s, fail) ==
    /\ req[s].op = "create"
    /\ req[s].pc = "email"
    /\ req' = [req EXCEPT ![s] = Created([req[s] EXCEPT !.emailThrew = fail], ~fail)]
    /\ UNCHANGED <<store, gateway>>

\* routes/admin.js: the count logged after the insert (inside the outer try),
\* then the 201 response
RecountBookings(s, fail) ==
    /\ req[s].op = "create"
    /\ req[s].pc \in {"recount", "respond"}
    /\ req' = [req EXCEPT ![s] =
            IF fail /\ req[s].pc = "recount"
              THEN Reply(Threw(req[s]), 500, "internal")
              ELSE Created(req[s], FALSE)]
    /\ UNCHANGED <<store, gateway>>

\* one awaited step of a booking request in slot s
BookingStep(s) ==
    \E fail \in BOOLEAN :
        \/ CountBookings(s, fail)
        \/ FindClient(s, fail)
        \/ \E adopt \in BOOLEAN : InsertClient(s, fail, adopt)
        \/ CreateProject(s, fail)
        \/ SendBookingConfirmation(s, fail)
        \/ RecountBookings(s, fail)

\* the awaited steps of the handlers that make no month check
UncheckedBookingStep(s) ==
    \E fail \in BOOLEAN :
        \/ FindClient(s, fail)
        \/ \E adopt \in BOOLEAN : InsertClient(s, fail, adopt)
        \/ CreateProject(s, fail)
        \/ SendBookingConfirmation(s, fail)

-----------------------------------------------------------------------------
(* GET /api/bookings/availability/:month *)

\* res.json({ available, currentBookings, month, maxBookings }); rowsBefore
\* keeps the month's number of non-cancelled Projects at that moment
Availability(r, available, currentBookings) ==
    [r EXCEPT !.pc = "done", !.code = 200, !.available = available,
              !.bookingCount = currentBookings,
              !.rowsBefore = CountNotCancelled(r.bookingMonth)]

\* the request arrives.  routes/bookings.js answers at once, without a store
\* call: available true, currentBookings 0.  routes/admin.js first reads
\* every Project, part_003 goes straight to the count.
ReceiveAvailability(s, h, month) ==
    /\ Free(s)
    /\ LET r == [Idle EXCEPT !.op = "availability", !.h = h, !.bookingMonth = month] IN
       req' = [req EXCEPT ![s] =
            CASE h = HRouter -> Availability(r, TRUE, 0)
              [] h = HAdmin -> [r EXCEPT !.pc = "avFindAll"]
              [] OTHER -> [r EXCEPT !.pc = "avCount"]]
    /\ UNCHANGED <<store, gateway>>

\* routes/admin.js: await Project.findAll({ attributes, raw: true }), logged
AvailabilityFindAll(s, fail) ==
    /\ req[s].op = "availability"
    /\ req[s].pc = "avFindAll"
    /\ LET r == Touch(req[s]) IN
       req' = [req EXCEPT ![s] =
            IF fail THEN Reply(Threw(r), 500, "failed")
            ELSE [r EXCEPT !.pc = "avCount"]]
    /\ UNCHANGED <<store, gateway>>

\* (mutant) a month found available is held for the caller with a
\* placeholder Project
AvailabilityCountReserving(s, fail) ==
    /\ req[s].op = "availability"
    /\ req[s].pc = "avCount"
    /\ LET r == Touch(req[s])
           n == BookingCount(r.h, r.bookingMonth)
       IN /\ req' = [req EXCEPT ![s] =
                IF fail THEN Reply(Threw(r), 500, "failed")
                ELSE Availability(r, n < MaxBookings, n)]
          /\ projects' = IF ~fail /\ n < MaxBookings
                            THEN projects \cup
                                 {[id |-> 0, clientId |-> 0, projectType |-> "custom",
                                   bookingMonth |-> r.bookingMonth, status |-> "pending"]}
                            ELSE projects
    /\ UNCHANGED <<clients, payments, lastClientId, lastProjectId, lastPaymentId, gateway>>

\* await Project.count(...); isAvailable = bookingCount < 4.  On a throw
\* part_003 answers 200 with available true and currentBookings 0,
\* routes/admin.js answers 500.
AvailabilityCount(s, fail) ==
    /\ req[s].op = "availability"
    /\ req[s].pc = "avCount"
    /\ LET r == Touch(req[s])
           n == BookingCount(r.h, r.bookingMonth)
       IN req' = [req EXCEPT ![s] =
            IF fail
              THEN IF r.h = HAdmin
                     THEN Reply(Threw(r), 500, "failed")
                     ELSE Availability([Threw(r) EXCEPT !.error = "failed"], TRUE, 0)
              ELSE Availability(r, n < MaxBookings, n)]
    /\ UNCHANGED <<store, gateway>>

\* one awaited step of an availability request in slot s
AvailabilityStep(s) ==
    \E fail \in BOOLEAN :
        \/ AvailabilityFindAll(s, fail)
        \/ AvailabilityCount(s, fail)

-----------------------------------------------------------------------------
(* POST /api/bookings/:id/approve and /decline *)

\* (mutant) approving starts the work at once
TargetStartsWork(op) == IF op = "approve" THEN "in_progress" ELSE "declined"

\* the status the handler writes
Target(op) == IF op = "approve" THEN "approved" ELSE "declined"

Decision(r) == r.op \in {"approve", "decline"}

\* (mutant) the UPDATE loses its WHERE id = :id
SetStatusEveryRow(id, status) ==
    {[p EXCEPT !.status = status] : p \in projects}

\* UPDATE projects SET status = :status WHERE id = :id
SetStatus(id, status) ==
    {IF p.id = id THEN [p EXCEPT !.status = status] ELSE p : p \in projects}

\* the request arrives; server.js parses the id first:
\* parseInt(req.params.id), isNaN(projectId) || projectId <= 0 -> 400
ReceiveDecision(s, h, op, id) ==
    /\ Free(s)
    /\ LET r == [Idle EXCEPT !.op = op, !.h = h, !.id = id,
                             !.before = [clients |-> {}, projects |-> projects]]
       IN req' = [req EXCEPT ![s] =
            IF h = HServer /\ id <= 0
              THEN Reply(r, 400, "invalid_id")
              ELSE [r EXCEPT !.pc = "find"]]
    /\ UNCHANGED <<store, gateway>>

\* await Project.findByPk(id): the instance the handler goes on with
FindProject(s, fail) ==
    /\ Decision(req[s])
    /\ req[s].pc = "find"
    /\ LET r == Touch(req[s])
           hit == {p \in projects : p.id = r.id}
       IN req' = [req EXCEPT ![s] =
            IF fail THEN Reply(Threw(r), 500, "find_failed")
            ELSE IF hit = {} THEN Reply(r, 404, "not_found")
            ELSE LET p == CHOOSE p \in hit : TRUE IN
                 [r EXCEPT !.project = p.id, !.status = p.status, !.client = p.clientId,
                           !.pc = CASE r.h = HServer -> "m1update"
                                    [] r.h = HRevision -> "save"
                                    [] OTHER -> "update"]]
    /\ UNCHANGED <<store, gateway>>

\* instance.update(values) and instance.save() send an UPDATE only when the
\* instance has a changed field: r.status is the instance's status, r.changed
\* tells that it differs from what the instance last read or wrote
InstanceSet(r, status) ==
    [r EXCEPT !.changed = r.changed \/ r.status # status, !.status = status]

\* routes/bookings.js: await project.update({ status }), then the response
\* with project.status of the instance
UpdateProject(s, fail) ==
    /\ Decision(req[s])
    /\ req[s].pc = "update"
    /\ LET r == InstanceSet(req[s], Target(req[s].op)) IN
       IF r.changed /\ fail
         THEN /\ req' = [req EXCEPT ![s] = Reply(Threw(r), 500, "failed")]
              /\ UNCHANGED projects
         ELSE /\ projects' = IF r.changed THEN SetStatus(r.project, r.status) ELSE projects
              /\ req' = [req EXCEPT ![s] =
                    [r EXCEPT !.pc = "done", !.code = 200, !.saved = TRUE,
                              !.changed = FALSE, !.outStatus = r.status]]
    /\ UNCHANGED <<clients, payments, lastClientId, lastProjectId, lastPaymentId, gateway>>

\* server.js Method 1, first await: project.update({ status })
Method1Update(s, fail) ==
    /\ Decision(req[s])
    /\ req[s].pc = "m1update"
    /\ LET r == InstanceSet(req[s], Target(req[s].op)) IN
       IF r.changed /\ fail
         THEN /\ req' = [req EXCEPT ![s] = [Threw(r) EXCEPT !.pc = "m2save"]]
              /\ UNCHANGED projects
         ELSE /\ projects' = IF r.changed THEN SetStatus(r.project, r.status) ELSE projects
              /\ req' = [req EXCEPT ![s] =
                    [r EXCEPT !.changed = FALSE, !.pc = "m1reload"]]
    /\ UNCHANGED <<clients, payments, lastClientId, lastProjectId, lastPaymentId, gateway>>

\* server.js Method 1, second await: project.reload(); finalStatus is the
\* status read back.  A throw (also: the row is gone) leads to Method 2.
Method1Reload(s, fail) ==
    /\ Decision(req[s])
    /\ req[s].pc = "m1reload"
    /\ LET r == req[s]
           hit == {p \in projects : p.id = r.project}
       IN req' = [req EXCEPT ![s] =
            IF fail \/ hit = {}
              THEN [Threw(r) EXCEPT !.pc = "m2save"]
              ELSE LET p == CHOOSE p \in hit : TRUE IN
                   [r EXCEPT !.status = p.status, !.outStatus = p.status,
                             !.saved = TRUE, !.pc = "email"]]
    /\ UNCHANGED <<store, gateway>>

\* server.js Method 2: project.status = ...; await project.save();
\* finalStatus is the instance's status
Method2Save(s, fail) ==
    /\ Decision(req[s])
    /\ req[s].pc = "m2save"
    /\ LET r == InstanceSet(req[s], Target(req[s].op)) IN
       IF r.changed /\ fail
         THEN /\ req' = [req EXCEPT ![s] = [Threw(r) EXCEPT !.pc = "m3update"]]
              /\ UNCHANGED projects
         ELSE /\ projects' = IF r.changed THEN SetStatus(r.project, r.status) ELSE projects
              /\ req' = [req EXCEPT ![s] =
                    [r EXCEPT !.changed = FALSE, !.outStatus = r.status,
                              !.saved = TRUE, !.pc = "email"]]
    /\ UNCHANGED <<clients, payments, lastClientId, lastProjectId, lastPaymentId, gateway>>

\* (mutant) the 500 answer loses its return and the handler goes on to the
\* notification
AllMethodsFailedNotifies(r) == [Threw(r) EXCEPT !.error = "all_methods_failed", !.pc = "email"]

\* the 500 answer when no method has set updateSuccess
AllMethodsFailed(r) == Reply(Threw(r), 500, "all_methods_failed")

\* server.js Method 3, first await: the raw UPDATE
Method3Update(s, fail) ==
    /\ Decision(req[s])
    /\ req[s].pc = "m3update"
    /\ LET r == req[s] IN
       IF fail
         THEN /\ req' = [req EXCEPT ![s] = AllMethodsFailed(r)]
              /\ UNCHANGED projects
         ELSE /\ projects' = SetStatus(r.id, Target(r.op))
              /\ req' = [req EXCEPT ![s] = [r EXCEPT !.pc = "m3select"]]
    /\ UNCHANGED <<clients, payments, lastClientId, lastProjectId, lastPaymentId, gateway>>

\* server.js Method 3, second await: the raw SELECT that verifies the UPDATE
Method3Select(s, fail) ==
    /\ Decision(req[s])
    /\ req[s].pc = "m3select"
    /\ LET r == req[s]
           hit == {p \in projects : p.id = r.id /\ p.status = Target(r.op)}
       IN req' = [req EXCEPT ![s] =
            IF fail \/ hit = {}
              THEN AllMethodsFailed(r)
              ELSE [r EXCEPT !.outStatus = Target(r.op), !.saved = TRUE, !.pc = "email"]]
    /\ UNCHANGED <<store, gateway>>

\* server.js: await sendApprovalEmail / sendDeclineEmail inside its own
\* try/catch, then the response with finalStatus
SendDecisionEmail(s, fail) ==
    /\ Decision(req[s])
    /\ req[s].pc = "email"
    /\ req' = [req EXCEPT ![s] =
            [req[s] EXCEPT !.pc = "done", !.code = 200, !.emailSent = ~fail,
                           !.emailThrew = fail]]
    /\ UNCHANGED <<store, gateway>>

\* part_003, second revision: project.status = ...; await project.save()
\* (project.paymentStatus is no column of projects and is not stored)
SaveProject(s, fail) ==
    /\ Decision(req[s])
    /\ req[s].pc = "save"
    /\ LET r == InstanceSet(req[s], Target(req[s].op)) IN
       IF r.changed /\ fail
         THEN /\ req' = [req EXCEPT ![s] = Reply(Threw(r), 500, "failed")]
              /\ UNCHANGED projects
         ELSE /\ projects' = IF r.changed THEN SetStatus(r.project, r.status) ELSE projects
              /\ req' = [req EXCEPT ![s] =
                    [r EXCEPT !.changed = FALSE, !.saved = TRUE, !.pc = "notify"]]
    /\ UNCHANGED <<clients, payments, lastClientId, lastProjectId, lastPaymentId, gateway>>

\* part_003, second revision: await sendApprovalEmail(...) or
\* sendDeclineEmail(...) in the handler's one try block: a throw is answered
\* by the catch with 500, otherwise res.json({ success: true })
NotifyDecision(s, fail) ==
    /\ Decision(req[s])
    /\ req[s].pc = "notify"
    /\ req' = [req EXCEPT ![s] =
            IF fail
              THEN Reply([req[s] EXCEPT !.emailThrew = TRUE], 500, "failed")
              ELSE [req[s] EXCEPT !.pc = "done", !.code = 200, !.emailSent = TRUE]]
    /\ UNCHANGED <<store, gateway>>

\* one awaited step of an approve or decline request of the second revision
RevisionDecisionStep(s) ==
    \E fail \in BOOLEAN :
        \/ SaveProject(s, fail)
        \/ NotifyDecision(s, fail)

\* the awaited steps of the approve and decline handlers of routes/bookings.js
RouterDecisionStep(s) ==
    \E fail \in BOOLEAN :
        \/ FindProject(s, fail)
        \/ UpdateProject(s, fail)

\* one awaited step of an approve or decline request in slot s
DecisionStep(s) ==
    \E fail \in BOOLEAN :
        \/ FindProject(s, fail)
        \/ UpdateProject(s, fail)
        \/ Method1Update(s, fail)
        \/ Method1Reload(s, fail)
        \/ Method2Save(s, fail)
        \/ Method3Update(s, fail)
        \/ Method3Select(s, fail)
        \/ SendDecisionEmail(s, fail)

-----------------------------------------------------------------------------
(* The payment gateway *)

Succeeded == "payment_intent.succeeded"
PaymentFailed == "payment_intent.payment_failed"
Canceled == "payment_intent.canceled"

\* the statuses in which an intent is still open
OpenIntentStatus ==
    {"requires_payment_method", "requires_confirmation", "requires_action",
     "processing", "requires_capture"}

\* the customer's payment attempt on an open intent, and the event the
\* gateway emits for it (a failed attempt reopens the intent; an attempt can
\* also stop at a further step: confirmation, an action of the customer,
\* the capture)
GatewaySettle(i, outcome) ==
    /\ \E it \in intents :
          /\ it.id = i
          /\ it.status \in OpenIntentStatus
          /\ intents' = (intents \ {it}) \cup
                {[it EXCEPT !.status =
                    CASE outcome = "failed" -> "requires_payment_method"
                      [] OTHER -> outcome]}
          /\ events' = events \cup
                (CASE outcome = "succeeded" ->
                        {[type |-> Succeeded, intent |-> i, projectId |-> it.projectId]}
                   [] outcome = "failed" ->
                        {[type |-> PaymentFailed, intent |-> i, projectId |-> it.projectId]}
                   [] outcome = "canceled" ->
                        {[type |-> Canceled, intent |-> i, projectId |-> it.projectId]}
                   [] OTHER -> {})
    /\ UNCHANGED <<store, req>>

-----------------------------------------------------------------------------
(* POST /api/payments/create-intent  (routes/bookings.js, second module) *)

\* if (!amount || !projectId) -> 400; if (amount < 0.50) -> 400.
\* amount is in cents here, so that it stays an integer.
ReceiveCreateIntent(s, amount, projectId) ==
    /\ Free(s)
    /\ LET r == [Idle EXCEPT !.op = "createIntent", !.id = projectId] IN
       req' = [req EXCEPT ![s] =
            IF amount = 0 \/ projectId = 0 THEN Reply(r, 400, "required")
            ELSE IF amount < 50 THEN Reply(r, 400, "amount")
            ELSE [r EXCEPT !.pc = "ciFind"]]
    /\ UNCHANGED <<store, gateway>>

\* await Project.findByPk(projectId, { include: client })
IntentFindProject(s, fail) ==
    /\ req[s].op = "createIntent"
    /\ req[s].pc = "ciFind"
    /\ LET r == Touch(req[s]) IN
       req' = [req EXCEPT ![s] =
            IF fail THEN Reply(Threw(r), 500, "failed")
            ELSE IF ~(\E p \in projects : p.id = r.id) THEN Reply(r, 404, "not_found")
            ELSE [r EXCEPT !.project = r.id, !.pc = "ciStripe"]]
    /\ UNCHANGED <<store, gateway>>

\* await stripe.paymentIntents.create({ ..., metadata: { projectId } })
IntentStripeCreate(s, fail) ==
    /\ req[s].op = "createIntent"
    /\ req[s].pc = "ciStripe"
    /\ LET r == req[s]
           i == Cardinality(intents) + 1
       IN IF fail
            THEN /\ req' = [req EXCEPT ![s] = Reply(r, 500, "stripe")]
                 /\ UNCHANGED intents
            ELSE /\ intents' = intents \cup
                        {[id |-> i, projectId |-> r.project,
                          status |-> "requires_payment_method"]}
                 /\ req' = [req EXCEPT ![s] = [r EXCEPT !.intent = i, !.pc = "ciPayment"]]
    /\ UNCHANGED <<store, events>>

\* await Payment.create({ projectId, paymentStatus: 'pending',
\* stripePaymentId: paymentIntent.id }); projectId is a foreign key
IntentCreatePayment(s, fail) ==
    /\ req[s].op = "createIntent"
    /\ req[s].pc = "ciPayment"
    /\ LET r == req[s]
           row == [id |-> lastPaymentId + 1, projectId |-> r.project,
                   paymentStatus |-> "pending", stripePaymentId |-> r.intent]
       IN IF fail \/ ~(\E p \in projects : p.id = r.project)
            THEN /\ req' = [req EXCEPT ![s] = Reply(Threw(r), 500, "failed")]
                 /\ UNCHANGED <<payments, lastPaymentId>>
            ELSE /\ payments' = payments \cup {row}
                 /\ lastPaymentId' = lastPaymentId + 1
                 /\ req' = [req EXCEPT ![s] =
                        [r EXCEPT !.pc = "done", !.code = 200, !.payment = row.id,
                                  !.saved = TRUE]]
    /\ UNCHANGED <<clients, projects, lastClientId, lastProjectId, gateway>>

-----------------------------------------------------------------------------
(* POST /api/payments/confirm  (routes/bookings.js, second module) *)

\* the Payment rows that carry the gateway reference (stripePaymentId)
RowsOf(paymentIntentId) == {q \in payments : q.stripePaymentId = paymentIntentId}

\* what the store held for the reference when the request arrived
Arrived(r, paymentIntentId) ==
    [r EXCEPT !.rowsBefore = Cardinality(RowsOf(paymentIntentId)),
              !.completedBefore =
                  \E q \in RowsOf(paymentIntentId) : q.paymentStatus = "completed"]

\* (mutant) a processing intent is taken for a completed payment
PaymentStatusForProcessing(gwStatus) ==
    CASE gwStatus \in {"succeeded", "processing"} -> "completed"
      [] gwStatus \in {"requires_payment_method", "requires_confirmation",
                       "requires_action"} -> "pending"
      [] OTHER -> "failed"

\* (mutant) a canceled intent is booked as a refund
PaymentStatusForCanceledRefunded(gwStatus) ==
    CASE gwStatus = "succeeded" -> "completed"
      [] gwStatus \in {"processing", "requires_payment_method",
                       "requires_confirmation", "requires_action"} -> "pending"
      [] gwStatus = "canceled" -> "refunded"
      [] OTHER -> "failed"

\* the switch on paymentIntent.status: paymentStatus
PaymentStatusFor(gwStatus) ==
    CASE gwStatus = "succeeded" -> "completed"
      [] gwStatus \in {"processing", "requires_payment_method",
                       "requires_confirmation", "requires_action"} -> "pending"
      [] gwStatus = "canceled" -> "failed"
      [] OTHER -> "failed"

\* the switch on paymentIntent.status: projectStatus
ProjectStatusFor(gwStatus) ==
    CASE gwStatus = "succeeded" -> "in_progress"
      [] gwStatus = "canceled" -> "cancelled"
      [] OTHER -> "pending"

\* UPDATE payments SET paymentStatus WHERE the row is in `rows`
SetPaymentStatus(rows, status) ==
    {IF q \in rows THEN [q EXCEPT !.paymentStatus = status] ELSE q : q \in payments}

\* if (!paymentIntentId) -> 400
ReceiveConfirm(s, paymentIntentId, projectId) ==
    /\ Free(s)
    /\ LET r == Arrived([Idle EXCEPT !.op = "confirm", !.intent = paymentIntentId,
                                     !.id = projectId,
                                     !.before = [clients |-> {}, projects |-> projects]],
                        paymentIntentId)
       IN req' = [req EXCEPT ![s] =
            IF paymentIntentId = 0 THEN Reply(r, 400, "required")
            ELSE [r EXCEPT !.pc = "cfRetrieve"]]
    /\ UNCHANGED <<store, gateway>>

\* await stripe.paymentIntents.retrieve(paymentIntentId)
ConfirmRetrieve(s, fail) ==
    /\ req[s].op = "confirm"
    /\ req[s].pc = "cfRetrieve"
    /\ LET r == req[s]
           hit == {it \in intents : it.id = r.intent}
       IN req' = [req EXCEPT ![s] =
            IF fail \/ hit = {} THEN Reply(r, 500, "failed")
            ELSE [r EXCEPT !.gwStatus = (CHOOSE it \in hit : TRUE).status,
                           !.pc = "cfFind"]]
    /\ UNCHANGED <<store, gateway>>

\* await Payment.findOne({ where: { stripePaymentId } }): any one matching row
ConfirmFindPayment(s, fail) ==
    /\ req[s].op = "confirm"
    /\ req[s].pc = "cfFind"
    /\ LET r == Touch(req[s])
           hit == {q \in payments : q.stripePaymentId = r.intent}
       IN \/ /\ fail
             /\ req' = [req EXCEPT ![s] = Reply(Threw(r), 500, "failed")]
          \/ /\ ~fail /\ hit = {}
             /\ req' = [req EXCEPT ![s] = Reply(r, 404, "not_found")]
          \/ /\ ~fail
             /\ \E q \in hit :
                   req' = [req EXCEPT ![s] = [r EXCEPT !.payment = q.id,
                                                      !.pc = "cfPayment"]]
    /\ UNCHANGED <<store, gateway>>

\* await payment.update({ paymentStatus }), then
\* if (projectId && paymentStatus === 'completed') the project update follows
ConfirmUpdatePayment(s, fail) ==
    /\ req[s].op = "confirm"
    /\ req[s].pc = "cfPayment"
    /\ LET r == req[s]
           st == PaymentStatusFor(r.gwStatus)
       IN IF fail
            THEN /\ req' = [req EXCEPT ![s] = Reply(Threw(r), 500, "failed")]
                 /\ UNCHANGED payments
            ELSE /\ payments' = SetPaymentStatus({q \in payments : q.id = r.payment}, st)
                 /\ req' = [req EXCEPT ![s] =
                        IF r.id # 0 /\ st = "completed"
                          THEN [r EXCEPT !.status = st, !.pc = "cfProject"]
                          ELSE [r EXCEPT !.pc = "done", !.code = 200, !.status = st,
                                         !.outStatus = ProjectStatusFor(r.gwStatus)]]
    /\ UNCHANGED <<clients, projects, lastClientId, lastProjectId, lastPaymentId, gateway>>

\* await Project.update({ status: projectStatus }, { where: { id: projectId } })
ConfirmUpdateProject(s, fail) ==
    /\ req[s].op = "confirm"
    /\ req[s].pc = "cfProject"
    /\ LET r == req[s] IN
       IF fail
         THEN /\ req' = [req EXCEPT ![s] = Reply(Threw(r), 500, "failed")]
              /\ UNCHANGED projects
         ELSE /\ projects' = SetStatus(r.id, ProjectStatusFor(r.gwStatus))
              /\ req' = [req EXCEPT ![s] =
                    [r EXCEPT !.pc = "done", !.code = 200, !.paid = TRUE,
                              !.outStatus = ProjectStatusFor(r.gwStatus)]]
    /\ UNCHANGED <<clients, payments, lastClientId, lastProjectId, lastPaymentId, gateway>>

-----------------------------------------------------------------------------
(* POST /api/payments/webhook  (routes/bookings.js, second module) *)

\* the switch on event.type; an event the gateway emitted may be delivered
\* any number of times
ReceiveWebhook(s, ev) ==
    /\ Free(s)
    /\ ev \in events
    /\ LET r == Arrived([Idle EXCEPT !.op = "webhook", !.event = ev.type,
                                     !.intent = ev.intent, !.id = ev.projectId,
                                     !.before = [clients |-> {}, projects |-> projects]],
                        ev.intent)
       IN req' = [req EXCEPT ![s] =
            CASE ev.type = Succeeded -> [r EXCEPT !.pc = "whPayment"]
              [] ev.type = PaymentFailed -> [r EXCEPT !.pc = "whFailed"]
              [] OTHER -> [r EXCEPT !.pc = "done", !.code = 200]]
    /\ UNCHANGED <<store, gateway>>

\* payment_intent.succeeded: await Payment.update({ paymentStatus:
\* 'completed' }, { where: { stripePaymentId } })
WebhookCompletePayment(s, fail) ==
    /\ req[s].op = "webhook"
    /\ req[s].pc = "whPayment"
    /\ LET r == Touch(req[s]) IN
       IF fail
         THEN /\ req' = [req EXCEPT ![s] = Reply(Threw(r), 500, "webhook_failed")]
              /\ UNCHANGED payments
         ELSE /\ payments' = SetPaymentStatus(
                    {q \in payments : q.stripePaymentId = r.intent}, "completed")
              /\ req' = [req EXCEPT ![s] =
                    IF r.id # 0 THEN [r EXCEPT !.pc = "whProject"]
                    ELSE [r EXCEPT !.pc = "done", !.code = 200]]
    /\ UNCHANGED <<clients, projects, lastClientId, lastProjectId, lastPaymentId, gateway>>

\* payment_intent.succeeded: await Project.update({ status: 'in_progress' },
\* { where: { id: paymentIntent.metadata.projectId } })
WebhookUpdateProject(s, fail) ==
    /\ req[s].op = "webhook"
    /\ req[s].pc = "whProject"
    /\ LET r == req[s] IN
       IF fail
         THEN /\ req' = [req EXCEPT ![s] = Reply(Threw(r), 500, "webhook_failed")]
              /\ UNCHANGED projects
         ELSE /\ projects' = SetStatus(r.id, "in_progress")
              /\ req' = [req EXCEPT ![s] =
                    [r EXCEPT !.pc = "done", !.code = 200, !.paid = TRUE]]
    /\ UNCHANGED <<clients, payments, lastClientId, lastProjectId, lastPaymentId, gateway>>

\* payment_intent.payment_failed: await Payment.update({ paymentStatus:
\* 'failed' }, { where: { stripePaymentId } })
WebhookFailPayment(s, fail) ==
    /\ req[s].op = "webhook"
    /\ req[s].pc = "whFailed"
    /\ LET r == Touch(req[s]) IN
       IF fail
         THEN /\ req' = [req EXCEPT ![s] = Reply(Threw(r), 500, "webhook_failed")]
              /\ UNCHANGED payments
         ELSE /\ payments' = SetPaymentStatus(
                    {q \in payments : q.stripePaymentId = r.intent}, "failed")
              /\ req' = [req EXCEPT ![s] = [r EXCEPT !.pc = "done", !.code = 200]]
    /\ UNCHANGED <<clients, projects, lastClientId, lastProjectId, lastPaymentId, gateway>>

-----------------------------------------------------------------------------
(* POST /confirm of routes/payments.js *)

\* no validation: the first await is Payment.create
ReceiveRecordPayment(s, projectId, paymentIntentId) ==
    /\ Free(s)
    /\ req' = [req EXCEPT ![s] =
            Arrived([Idle EXCEPT !.op = "recordPayment", !.id = projectId,
                                 !.intent = paymentIntentId, !.pc = "rpPayment",
                                 !.before = [clients |-> {}, projects |-> projects]],
                    paymentIntentId)]
    /\ UNCHANGED <<store, gateway>>

\* await Payment.create({ projectId, paymentStatus: 'completed',
\* stripePaymentId: paymentIntentId }); projectId is a foreign key
RecordCreatePayment(s, fail) ==
    /\ req[s].op = "recordPayment"
    /\ req[s].pc = "rpPayment"
    /\ LET r == Touch(req[s])
           row == [id |-> lastPaymentId + 1, projectId |-> r.id,
                   paymentStatus |-> "completed", stripePaymentId |-> r.intent]
       IN IF fail \/ ~(\E p \in projects : p.id = r.id)
            THEN /\ req' = [req EXCEPT ![s] = Reply(Threw(r), 500, "failed")]
                 /\ UNCHANGED <<payments, lastPaymentId>>
            ELSE /\ payments' = payments \cup {row}
                 /\ lastPaymentId' = lastPaymentId + 1
                 /\ req' = [req EXCEPT ![s] =
                        [r EXCEPT !.payment = row.id, !.pc = "rpProject"]]
    /\ UNCHANGED <<clients, projects, lastClientId, lastProjectId, gateway>>

\* await Project.update({ status: 'in_progress' }, { where: { id: projectId } })
RecordUpdateProject(s, fail) ==
    /\ req[s].op = "recordPayment"
    /\ req[s].pc = "rpProject"
    /\ LET r == req[s] IN
       IF fail
         THEN /\ req' = [req EXCEPT ![s] = Reply(Threw(r), 500, "failed")]
              /\ UNCHANGED projects
         ELSE /\ projects' = SetStatus(r.id, "in_progress")
              /\ req' = [req EXCEPT ![s] =
                    [r EXCEPT !.pc = "done", !.code = 200, !.paid = TRUE]]
    /\ UNCHANGED <<clients, payments, lastClientId, lastProjectId, lastPaymentId, gateway>>

\* one awaited step of a payment request in slot s
PaymentStep(s) ==
    \E fail \in BOOLEAN :
        \/ IntentFindProject(s, fail)
        \/ IntentStripeCreate(s, fail)
        \/ IntentCreatePayment(s, fail)
        \/ ConfirmRetrieve(s, fail)
        \/ ConfirmFindPayment(s, fail)
        \/ ConfirmUpdatePayment(s, fail)
        \/ ConfirmUpdateProject(s, fail)
        \/ WebhookCompletePayment(s, fail)
        \/ WebhookUpdateProject(s, fail)
        \/ WebhookFailPayment(s, fail)
        \/ RecordCreatePayment(s, fail)
        \/ RecordUpdateProject(s, fail)

-----------------------------------------------------------------------------
(* /api/clients *)

\* POST /api/clients: the express-validator chain (name notEmpty, email
\* isEmail), then Client.create(req.body); a rejected insert is answered 400
CreateClient(s, name, email, fail) ==
    /\ Free(s)
    /\ LET r == [Idle EXCEPT !.op = "clientCreate"]
           row == [id |-> lastClientId + 1, name |-> name, email |-> email]
       IN IF Falsy(name) \/ ~IsEmail(email)
            THEN /\ req' = [req EXCEPT ![s] = Reply(r, 400, "validation")]
                 /\ UNCHANGED <<clients, lastClientId>>
          ELSE IF fail \/ ~ClientValid(name, email)
            THEN /\ req' = [req EXCEPT ![s] = Reply(Threw(r), 400, "create_failed")]
                 /\ UNCHANGED <<clients, lastClientId>>
          ELSE IF ~EmailFree(email, 0)
            THEN /\ req' = [req EXCEPT ![s] =
                        Reply([Threw(r) EXCEPT !.conflict = TRUE], 400, "create_failed")]
                 /\ UNCHANGED <<clients, lastClientId>>
          ELSE /\ clients' = clients \cup {row}
               /\ lastClientId' = lastClientId + 1
               /\ req' = [req EXCEPT ![s] =
                        [Touch(r) EXCEPT !.pc = "done", !.code = 201,
                                         !.outClientId = row.id, !.client = row.id]]
    /\ UNCHANGED <<projects, payments, lastProjectId, lastPaymentId, gateway>>

\* PUT /api/clients/:id: the validators (each field optional), then
\* Client.update(req.body, { where: { id } }); no row: 404, a throw: 400.
\* name = Undefined and email = <<>> stand for a field the body leaves out.
UpdateClient(s, id, name, email, fail) ==
    /\ Free(s)
    /\ LET r == [Idle EXCEPT !.op = "clientUpdate", !.id = id]
           hit == {c \in clients : c.id = id}
           new(c) == [c EXCEPT !.name = IF name = Undefined THEN c.name ELSE name,
                               !.email = IF Len(email) = 0 THEN c.email ELSE email]
       IN IF name = "" \/ (Len(email) > 0 /\ ~IsEmail(email))
            THEN /\ req' = [req EXCEPT ![s] = Reply(r, 400, "validation")]
                 /\ UNCHANGED clients
          ELSE IF fail
            THEN /\ req' = [req EXCEPT ![s] = Reply(Threw(r), 400, "update_failed")]
                 /\ UNCHANGED clients
          ELSE IF hit = {}
            THEN /\ req' = [req EXCEPT ![s] = Reply(Touch(r), 404, "not_found")]
                 /\ UNCHANGED clients
          ELSE IF Len(email) > 0 /\ ~EmailFree(email, id)
            THEN /\ req' = [req EXCEPT ![s] =
                        Reply([Threw(r) EXCEPT !.conflict = TRUE], 400, "update_failed")]
                 /\ UNCHANGED clients
          ELSE /\ clients' = {IF c.id = id THEN new(c) ELSE c : c \in clients}
               /\ req' = [req EXCEPT ![s] =
                        [Touch(r) EXCEPT !.pc = "done", !.code = 200, !.client = id]]
    /\ UNCHANGED <<projects, payments, lastClientId, lastProjectId, lastPaymentId, gateway>>

-----------------------------------------------------------------------------
(* Inputs *)

Ada == "Ada"
Bob == "Bob"
AdaEmail == <<"a", "@", "x", ".", "c", "o">>
BobEmail == <<"b", "@", "x", ".", "c", "o">>
NotAnEmail == <<"n", "o", "t">>
NoDomainDot == <<"a", "@", "x">>
SpacedEmail == <<"a", " ", "@", "x", ".", "c", "o">>
August == "2025-08"

-----------------------------------------------------------------------------
(* Bookings one at a time, any handler, any projectType *)

CapMaxProjects == 5

CapTypes == {"landing", "service-only", Undefined}
CapMonths == {August, Undefined}
CapHandlers == {HChecked, HRouter, HAdmin, HServer}

\* (the server.js handler is driven with a projectType only, which keeps
\* the stored types to two)
CapReceive ==
    /\ lastProjectId < CapMaxProjects
    /\ \E h \in CapHandlers, t \in CapTypes, m \in CapMonths :
          /\ h = HServer => t # Undefined
          /\ ReceiveBooking(1, h, Ada, AdaEmail, t, m)

CapNext ==
    \/ CapReceive
    \/ BookingStep(1)

SpecCapacity == Init /\ [][CapNext]_vars

\* the request fields of a real project with a month, as the claims word it
RealProjectForMonth(r) ==
    /\ r.projectType \notin {"service-only", Undefined, ""}
    /\ r.bookingMonth \notin {Undefined, ""}

\* the month's non-cancelled Projects among the rows the request started from
CountBefore(r) ==
    Cardinality({p \in r.before.projects :
                    p.bookingMonth = r.bookingMonth /\ p.status # "cancelled"})

\* a booking request that has been answered
Answered(r) == r.op = "create" /\ r.pc = "done"

C4_ExemptNeverRejectedForCapacity ==
    \A s \in Slots :
        LET r == req[s] IN
        (r.op = "create" /\ ~RealProjectForMonth(r))
        => (/\ r.pc # "count"
            /\ r.bookingCount = -1
            /\ r.error # "fully_booked"
            /\ (r.pc = "done" /\ ~r.storeThrew => r.code = 201 /\ r.saved))

\* C4 witness: a service-only booking accepted into a month that was full
C4_Witness ==
    \E s \in Slots :
        LET r == req[s] IN
        /\ Answered(r) /\ r.h = HChecked /\ r.projectType = "service-only"
        /\ r.bookingMonth = August
        /\ CountBefore(r) >= MaxBookings
        /\ r.code = 201 /\ r.saved

-----------------------------------------------------------------------------
(* Bookings one at a time, with valid and invalid names and emails *)

BookMaxProjects == 3

BookNames == {Ada, Bob, ""}
BookEmails == {AdaEmail, BobEmail, NotAnEmail, NoDomainDot, SpacedEmail, <<>>}
BookHandlers == {HChecked, HRouter, HAdmin}

BookReceive ==
    /\ lastProjectId < BookMaxProjects
    /\ \E h \in BookHandlers, n \in BookNames, e \in BookEmails :
          ReceiveBooking(1, h, n, e, "landing", August)

BookNext ==
    \/ BookReceive
    \/ BookingStep(1)

SpecBooking == Init /\ [][BookNext]_vars

\* C5: a CreateBooking (routes/bookings.js, one at a time) that succeeds with
\* an email an existing Client already has returns that Client's id and
\* leaves the clients table as it was: no Client added, no name changed.
C5_ExistingClientReused ==
    \A s \in Slots :
        LET r == req[s] IN
        \A c \in r.before.clients :
            (Answered(r) /\ r.code = 201 /\ c.email = r.clientEmail)
            => (r.outClientId = c.id /\ clients = r.before.clients)

\* C5 witness: a repeat booking under another clientName has succeeded
C5_Witness ==
    \E s \in Slots :
        LET r == req[s] IN
        \E c \in r.before.clients :
            /\ Answered(r) /\ r.code = 201 /\ r.h = HRouter
            /\ c.email = r.clientEmail /\ c.name # r.clientName
            /\ r.outClientId = c.id /\ c \in clients

\* the inputs C7 is about
InvalidBookingInput(r) ==
    \/ r.clientName \in {"", Undefined}
    \/ Len(r.clientEmail) = 0
    \/ ~EmailRegexTest(r.clientEmail)

\* C7: a CreateBooking (routes/bookings.js, routes/admin.js) with an empty
\* clientName or clientEmail, or a clientEmail that does not match the email
\* pattern, is answered 400 before any store call is issued.
C7_InvalidRejectedBeforeStore ==
    \A s \in Slots :
        LET r == req[s] IN
        (r.op = "create" /\ r.h \in {HRouter, HAdmin} /\ InvalidBookingInput(r))
        => (r.pc = "done" /\ r.code = 400 /\ ~r.touched)

\* C7 where it does hold: the handlers that test the email pattern
C7_RegexHandlersReject ==
    \A s \in Slots :
        LET r == req[s] IN
        (r.op = "create" /\ r.h \in {HRouter, HChecked} /\ InvalidBookingInput(r))
        => (r.pc = "done" /\ r.code = 400 /\ ~r.touched)

-----------------------------------------------------------------------------
(* Two real-project bookings for the same month in flight at once *)

RaceMaxProjects == 5

\* the requests still running
Running == {s \in Slots : InFlight(s)}

RaceReceive ==
    /\ lastProjectId + Cardinality(Running) < RaceMaxProjects
    /\ \E s \in Slots, h \in {HChecked, HAdmin} :
          ReceiveBooking(s, h, Ada, AdaEmail, "landing", August)

RaceNext ==
    \/ RaceReceive
    \/ \E s \in Slots : BookingStep(s)

SpecRace == Init /\ [][RaceNext]_vars

\* C2: the count and the insert of CreateBooking are separate steps.  Every
\* real-project booking that inserted had counted fewer than 4 Projects (or
\* its count query threw), yet with two requests in flight the month can
\* end above the limit: by no more than the one request that counted before
\* the other inserted, as long as no count query throws.
C2_CheckThenInsertNotAtomic ==
    /\ \A s \in Slots :
          (req[s].op = "create" /\ req[s].saved)
          => (req[s].bookingCount < MaxBookings)
    /\ (\A s \in Slots : ~req[s].storeThrew)
          => CountNotCancelled(August) <= MaxBookings + 1

\* C2 witness: both requests counted 3, both inserted, the month holds 5
C2_Witness ==
    /\ CountNotCancelled(August) > MaxBookings
    /\ \A s \in Slots :
          /\ req[s].op = "create" /\ req[s].saved /\ ~req[s].storeThrew
          /\ req[s].bookingCount = MaxBookings - 1
          /\ req[s].project > MaxBookings - 1

-----------------------------------------------------------------------------
(* Bookings, client creation and client update in flight at once *)

ClientsMaxProjects == 2
ClientsMaxClients == 2

ClientsReceive ==
    /\ lastProjectId + Cardinality(Running) < ClientsMaxProjects
    /\ \E s \in Slots, e \in {AdaEmail, BobEmail} :
          ReceiveBooking(s, HRouter, Ada, e, "landing", August)

ClientsCreate ==
    /\ lastClientId < ClientsMaxClients
    /\ \E e \in {AdaEmail, BobEmail, NotAnEmail}, fail \in BOOLEAN :
          CreateClient(1, Ada, e, fail)

ClientsUpdate ==
    \E id \in 1..ClientsMaxClients, e \in {AdaEmail, BobEmail}, fail \in BOOLEAN :
          UpdateClient(1, id, Undefined, e, fail)

ClientsNext ==
    \/ ClientsReceive
    \/ \E s \in Slots : UncheckedBookingStep(s)
    \/ ClientsCreate
    \/ ClientsUpdate

SpecClients == Init /\ [][ClientsNext]_vars

\* C6: no two Clients have the same email, under any interleaving of
\* CreateBooking calls, client creation and client update.
C6_EmailUnique ==
    \A c1 \in clients : \A c2 \in clients :
        c1.email = c2.email => c1 = c2

\* C6 witness: two bookings with the same new email both found no Client;
\* one inserted it and the unique index refused the other's insert
C6_Witness ==
    \E s \in Slots : \E t \in Slots :
        /\ s # t
        /\ req[s].op = "create" /\ req[t].op = "create"
        /\ req[s].clientEmail = req[t].clientEmail
        /\ req[s].before.clients = {} /\ req[t].before.clients = {}
        /\ req[s].conflict /\ ~req[t].conflict
        /\ req[t].client # 0
        /\ Cardinality(clients) = 1

-----------------------------------------------------------------------------
(* The life of a Project: booked, approved or declined, paid.  One request  *)
(* at a time, while the gateway settles intents on its own.                 *)

LifeMaxProjects == 1
LifeMaxPayments == 1

\* the intents the gateway hands out
LifeIntents == {1}

\* amounts in cents: none, below the 0.50 minimum, a real price
LifeAmounts == {0, 10, 5000}

LifeReceive ==
    \/ /\ lastProjectId < LifeMaxProjects
       /\ ReceiveBooking(1, HRouter, Ada, AdaEmail, "landing", August)
    \/ \E h \in {HRouter, HServer}, op \in {"approve", "decline"},
          id \in 0..LifeMaxProjects :
          ReceiveDecision(1, h, op, id)
    \/ /\ Cardinality(intents) < Cardinality(LifeIntents)
       /\ lastPaymentId < LifeMaxPayments
       /\ \E amount \in LifeAmounts, projectId \in 0..LifeMaxProjects :
             ReceiveCreateIntent(1, amount, projectId)
    \/ \E paymentIntentId \in LifeIntents \cup {0}, projectId \in 0..LifeMaxProjects :
          ReceiveConfirm(1, paymentIntentId, projectId)
    \/ \E ev \in events : ReceiveWebhook(1, ev)
    \/ /\ lastPaymentId < LifeMaxPayments
       /\ \E projectId \in 1..LifeMaxProjects, paymentIntentId \in LifeIntents :
             ReceiveRecordPayment(1, projectId, paymentIntentId)

LifeSettle ==
    \E i \in LifeIntents, outcome \in {"succeeded", "failed"} :
        GatewaySettle(i, outcome)

LifeNext ==
    \/ LifeReceive
    \/ UncheckedBookingStep(1)
    \/ DecisionStep(1)
    \/ PaymentStep(1)
    \/ LifeSettle

SpecLife == Init /\ [][LifeNext]_vars

\* the status of Project id among the rows, "" when there is no such row
StatusIn(rows, id) ==
    IF \E p \in rows : p.id = id
      THEN (CHOOSE p \in rows : p.id = id).status
      ELSE ""

\* an approve or decline request that has been answered
Decided(r) == Decision(r) /\ r.pc = "done"

\* this step is the project update of a payment handler that acts on a
\* succeeded payment: /confirm of an intent the gateway reports succeeded,
\* the payment_intent.succeeded webhook, or /confirm of routes/payments.js,
\* which has just recorded a completed Payment
PaymentSuccessStep ==
    \E s \in Slots :
        /\ ~req[s].paid /\ req'[s].paid
        /\ \/ req[s].op = "confirm" /\ req[s].gwStatus = "succeeded"
           \/ req[s].op = "webhook" /\ req[s].event = Succeeded
           \/ /\ req[s].op = "recordPayment"
              /\ \E q \in payments : q.id = req[s].payment /\ q.paymentStatus = "completed"

\* C9, first half: an ApproveBooking answered with success on a Project that
\* was pending or already approved leaves the Project approved and reports
\* approved.
C9_ApprovedAfterApprove ==
    \A s \in Slots :
        LET r == req[s] IN
        (Decided(r) /\ r.op = "approve" /\ r.code = 200
            /\ StatusIn(r.before.projects, r.id) \in {"pending", "approved"})
        => (r.outStatus = "approved" /\ StatusIn(projects, r.id) = "approved")

\* C9, second half: a step that takes a Project from approved to in_progress
\* is the project update of a payment handler acting on a succeeded payment.
C9_InProgressOnlyByPayment ==
    \A p \in projects :
        (p.status = "approved" /\ StatusIn(projects', p.id) = "in_progress")
        => PaymentSuccessStep

\* C9: ApproveBooking on a pending Project sets its status to approved, more
\* ApproveBooking calls leave it at approved, and the Project leaves approved
\* for in_progress only through a succeeded payment outcome.
C9_ApproveThenOnlyPaymentAdvances ==
    /\ []C9_ApprovedAfterApprove
    /\ [][C9_InProgressOnlyByPayment]_vars

\* C9 witness: a Project that was approved and paid for, hence went from
\* approved to in_progress, and is approved by now has been approved once
\* more through the server.js handler and is still approved.
C9_Witness ==
    /\ Decided(req[1]) /\ req[1].op = "approve" /\ req[1].code = 200
    /\ req[1].h = HServer
    /\ StatusIn(req[1].before.projects, req[1].id) = "approved"
    /\ StatusIn(projects, req[1].id) = "approved"
    /\ \E q \in payments : q.projectId = req[1].id /\ q.paymentStatus = "completed"

\* the Project an answered approve or decline named, when it existed and
\* was not pending
DecidedNonPending(r) ==
    /\ Decided(r)
    /\ StatusIn(r.before.projects, r.id) \notin {"", "pending"}

\* C10 as stated: ApproveBooking or DeclineBooking on a Project whose status
\* is not pending is rejected and leaves the Project's status unchanged.
C10_NonPendingRejected ==
    \A s \in Slots :
        LET r == req[s] IN
        DecidedNonPending(r)
        => (r.code >= 400 /\ StatusIn(projects, r.id) = StatusIn(r.before.projects, r.id))

\* C10, as the code has it: the handlers never look at the prior status.
\* An ApproveBooking or DeclineBooking on an existing Project of any status,
\* with no store call throwing, is answered with success, the Project then
\* has the status approved or declined that was asked for, and every other
\* Project is as before.
C10_DecisionOverwritesAnyStatus ==
    \A s \in Slots :
        LET r == req[s] IN
        (Decided(r) /\ StatusIn(r.before.projects, r.id) # "" /\ ~r.storeThrew)
        => /\ r.code = 200
           /\ r.outStatus = Target(r.op)
           /\ StatusIn(projects, r.id) = Target(r.op)
           /\ \A p \in r.before.projects : p.id # r.id => p \in projects

\* C10 witness: a Project in progress, its payment completed, was declined
\* with success.
C10_Witness ==
    /\ DecidedNonPending(req[1]) /\ req[1].op = "decline" /\ req[1].code = 200
    /\ StatusIn(req[1].before.projects, req[1].id) = "in_progress"
    /\ StatusIn(projects, req[1].id) = "declined"
    /\ \E q \in payments : q.projectId = req[1].id /\ q.paymentStatus = "completed"

-----------------------------------------------------------------------------
(* Absorbing states, payments and declined Projects *)

\* C11 as stated: declined and cancelled are absorbing.  No step of an
\* approve, decline, payment confirmation or webhook request changes the
\* status of a Project that is declined or cancelled.
C11_DeclinedCancelledAbsorbing ==
    [][\A p \in projects :
          p.status \in {"declined", "cancelled"}
          => StatusIn(projects', p.id) = p.status]_vars

\* C11 witness: a declined Project was approved, with success, and is
\* approved now.
C11_Witness ==
    /\ Decided(req[1]) /\ req[1].op = "approve" /\ req[1].code = 200
    /\ StatusIn(req[1].before.projects, req[1].id) = "declined"
    /\ StatusIn(projects, req[1].id) = "approved"

\* C12 as stated: in every reachable state no declined Project has a
\* Payment whose paymentStatus is completed.
C12_NoCompletedPaymentForDeclined ==
    \A p \in projects : \A q \in payments :
        (p.status = "declined" /\ q.projectId = p.id)
        => q.paymentStatus # "completed"

\* C12 witness: a Project was declined first; then an intent created for it
\* succeeded and /confirm, called without a projectId, completed its Payment
\* while the Project stays declined.
C12_Witness ==
    /\ req[1].op = "confirm" /\ req[1].pc = "done" /\ req[1].code = 200
    /\ req[1].id = 0
    /\ \E p \in projects : \E q \in payments :
          /\ StatusIn(req[1].before.projects, p.id) = "declined"
          /\ p.status = "declined"
          /\ q.id = req[1].payment /\ q.projectId = p.id
          /\ q.paymentStatus = "completed"

\* a payment request (confirm, webhook, /confirm of routes/payments.js) that
\* has been answered after its project update ran
PaidAnswered(r) ==
    /\ r.op \in {"confirm", "webhook", "recordPayment"}
    /\ r.pc = "done" /\ r.paid

\* C13 as stated: a succeeded payment outcome moves the Project to
\* in_progress only when it is approved; a Project that was pending or
\* declined keeps its status.
C13_SucceededAdvancesOnlyApproved ==
    \A s \in Slots :
        LET r == req[s] IN
        (PaidAnswered(r) /\ StatusIn(r.before.projects, r.id) \in {"pending", "declined"})
        => StatusIn(projects, r.id) = StatusIn(r.before.projects, r.id)

\* C13 witness: the payment_intent.succeeded webhook arrived for a Project
\* that was still pending, and the Project is in_progress now.
C13_Witness ==
    /\ PaidAnswered(req[1]) /\ req[1].op = "webhook" /\ req[1].code = 200
    /\ StatusIn(req[1].before.projects, req[1].id) = "pending"
    /\ StatusIn(projects, req[1].id) = "in_progress"

-----------------------------------------------------------------------------
(* Payment outcomes: bookings and the payment handlers, one request at a    *)
(* time, while the gateway settles the intent in every way it can.          *)

PayMaxProjects == 1
PayMaxPayments == 2

\* the intents the gateway hands out
PayIntents == {1}

PayReceive ==
    \/ /\ lastProjectId < PayMaxProjects
       /\ ReceiveBooking(1, HRouter, Ada, AdaEmail, "landing", August)
    \/ /\ Cardinality(intents) < Cardinality(PayIntents)
       /\ lastPaymentId < PayMaxPayments
       /\ \E projectId \in 1..PayMaxProjects : ReceiveCreateIntent(1, 5000, projectId)
    \/ \E paymentIntentId \in PayIntents, projectId \in 0..PayMaxProjects :
          ReceiveConfirm(1, paymentIntentId, projectId)
    \/ \E ev \in events : ReceiveWebhook(1, ev)
    \/ /\ lastPaymentId < PayMaxPayments
       /\ \E projectId \in 1..PayMaxProjects, paymentIntentId \in PayIntents :
             ReceiveRecordPayment(1, projectId, paymentIntentId)

PaySettle ==
    \E i \in PayIntents,
       outcome \in {"succeeded", "processing", "failed", "canceled"} :
        GatewaySettle(i, outcome)

PayNext ==
    \/ PayReceive
    \/ UncheckedBookingStep(1)
    \/ PaymentStep(1)
    \/ PaySettle

SpecPay == Init /\ [][PayNext]_vars

\* a request that applied the succeeded outcome and was answered with success
SucceededApplied(r) ==
    /\ r.pc = "done" /\ r.code = 200
    /\ \/ r.op = "webhook" /\ r.event = Succeeded
       \/ r.op = "recordPayment"
       \/ r.op = "confirm" /\ r.gwStatus = "succeeded"

\* C14 as stated: when the succeeded outcome is applied again for a gateway
\* reference that already has its one completed Payment, there is still
\* exactly one Payment row for the reference and the Project has the status
\* it had before the replay.
C14_SucceededReplayIdempotent ==
    \A s \in Slots :
        LET r == req[s] IN
        (SucceededApplied(r) /\ r.completedBefore /\ r.rowsBefore = 1)
        => /\ Cardinality(RowsOf(r.intent)) = 1
           /\ r.id # 0 => StatusIn(projects, r.id) = StatusIn(r.before.projects, r.id)

\* C14 witness: /confirm of routes/payments.js was called a second time with
\* the same paymentIntentId, and the reference has two completed Payments.
C14_Witness ==
    /\ SucceededApplied(req[1]) /\ req[1].op = "recordPayment"
    /\ req[1].completedBefore /\ req[1].rowsBefore = 1
    /\ Cardinality({q \in RowsOf(req[1].intent) : q.paymentStatus = "completed"}) = 2

\* a request that applied a failed or cancelled outcome and was answered
\* with success: the payment_intent.payment_failed webhook, or /confirm of
\* an intent the gateway reports canceled
FailedApplied(r) ==
    /\ r.pc = "done" /\ r.code = 200
    /\ \/ r.op = "webhook" /\ r.event = PaymentFailed
       \/ r.op = "confirm" /\ r.gwStatus = "canceled"

-----------------------------------------------------------------------------
(* Notifications: bookings, and the approve and decline handlers of         *)
(* routes/bookings.js, server.js and part_003, one request at a time.        *)

NotifyMaxProjects == 2

NotifyReceive ==
    \/ /\ lastProjectId < NotifyMaxProjects
       /\ ReceiveBooking(1, HRouter, Ada, AdaEmail, "landing", August)
    \/ \E h \in {HRouter, HServer, HRevision}, op \in {"approve", "decline"},
          id \in 0..NotifyMaxProjects :
          ReceiveDecision(1, h, op, id)

NotifyNext ==
    \/ NotifyReceive
    \/ UncheckedBookingStep(1)
    \/ DecisionStep(1)
    \/ RevisionDecisionStep(1)

SpecNotify == Init /\ [][NotifyNext]_vars

\* the state change of an answered request is in the store: the Project a
\* booking inserted, the status an approve or decline wrote
ChangeStored(r) ==
    IF r.op = "create"
      THEN \E p \in projects : p.id = r.project
      ELSE StatusIn(projects, r.id) = Target(r.op)

\* the success response of the operation
SuccessCode(r) == IF r.op = "create" THEN 201 ELSE 200

\* C16 as stated: when the notification fails during CreateBooking,
\* ApproveBooking or DeclineBooking, the state change stays in the store and
\* the caller receives the success response.
C16_NotificationFailureNotSurfaced ==
    \A s \in Slots :
        LET r == req[s] IN
        (r.pc = "done" /\ r.emailThrew)
        => (ChangeStored(r) /\ r.code = SuccessCode(r))

\* C16 witness: the approve handler of part_003 saved approved, the email
\* threw, and the caller got 500 while the Project is approved.
C16_Witness ==
    /\ Decided(req[1]) /\ req[1].h = HRevision /\ req[1].op = "approve"
    /\ req[1].emailThrew /\ req[1].code = 500
    /\ StatusIn(req[1].before.projects, req[1].id) = "pending"
    /\ StatusIn(projects, req[1].id) = "approved"

\* the request waits for its awaited notification attempt
NotificationPending(r) ==
    /\ r.op \in {"create", "approve", "decline"}
    /\ r.pc \in {"email", "notify"}

\* C17 as stated: the response of CreateBooking, ApproveBooking and
\* DeclineBooking does not wait for the notification (fire and forget).
\* Whenever the notification attempt of a request is still outstanding, its
\* response has been issued.
C17_ResponseDoesNotWait ==
    \A s \in Slots :
        NotificationPending(req[s]) => req[s].code # 0

\* C17 witness: the server.js approve handler has stored approved, the
\* approval email is outstanding, and no response has been issued.
C17_Witness ==
    /\ NotificationPending(req[1]) /\ req[1].h = HServer /\ req[1].op = "approve"
    /\ req[1].saved /\ req[1].code = 0
    /\ StatusIn(projects, req[1].id) = "approved"

-----------------------------------------------------------------------------
(* Store failures during CreateBooking (checked under SpecCapacity) *)

\* C18 as stated: a CreateBooking during which the client lookup or
\* creation or the Project insert fails is answered with 500, and a success
\* response is returned only when the Project row was persisted.
C18_StoreFailureAnswered500 ==
    \A s \in Slots :
        LET r == req[s] IN
        (r.op = "create" /\ r.pc = "done")
        => /\ (r.storeThrew /\ ~r.saved) => r.code = 500
           /\ r.code = 201 =>
                (r.saved /\ \E p \in projects : p.id = r.outProjectId)

\* C18 witness: the server.js handler, its store call having thrown,
\* answered 201 with made-up ids and no Project was added.
C18_Witness ==
    /\ Answered(req[1]) /\ req[1].h = HServer
    /\ req[1].storeThrew /\ ~req[1].saved
    /\ req[1].code = 201 /\ req[1].outProjectId = Synthetic
    /\ projects = req[1].before.projects

-----------------------------------------------------------------------------
(* Availability: availability requests in slot 2 interleaved with the        *)
(* bookings and declines of slot 1.                                           *)

AvailMaxProjects == 4

September == "2025-09"

AvailReceive ==
    \/ \E h \in {HChecked, HRouter, HAdmin} :
          /\ lastProjectId < AvailMaxProjects
          /\ ReceiveBooking(1, h, Ada, AdaEmail, "landing", August)
    \/ \E id \in 1..AvailMaxProjects : ReceiveDecision(1, HRouter, "decline", id)
    \/ \E h \in {HChecked, HRouter, HAdmin}, month \in {August, September} :
          ReceiveAvailability(2, h, month)

AvailNext ==
    \/ AvailReceive
    \/ BookingStep(1)
    \/ RouterDecisionStep(1)
    \/ AvailabilityStep(2)

SpecAvail == Init /\ [][AvailNext]_vars

\* an availability request answered with { available, currentBookings }
AvailabilityAnswered(r) ==
    r.op = "availability" /\ r.pc = "done" /\ r.code = 200

\* C19 as stated: CheckAvailability returns currentBookings equal to the
\* number of the month's Projects whose status is not cancelled (declined
\* ones included), and available exactly when that number is below 4.
\* routes/bookings.js answers 0 and true whatever the store holds, and
\* part_003 answers 0 and true when its count throws.
C19_AvailabilityReportsCount ==
    \A s \in Slots :
        AvailabilityAnswered(req[s]) =>
            /\ req[s].bookingCount = req[s].rowsBefore
            /\ req[s].available = (req[s].rowsBefore < MaxBookings)

\* C19: what holds of the code: part_003, when its count succeeds, reports
\* the month's number of non-cancelled Projects and compares it with 4
C19_CheckedHandlerReportsCount ==
    \A s \in Slots :
        (AvailabilityAnswered(req[s]) /\ req[s].h = HChecked /\ ~req[s].storeThrew) =>
            /\ req[s].bookingCount = req[s].rowsBefore
            /\ req[s].available = (req[s].rowsBefore < MaxBookings)

\* routes/bookings.js reports a month free that holds four Projects, one of
\* them declined
C19_Witness ==
    /\ AvailabilityAnswered(req[2])
    /\ req[2].h = HRouter
    /\ req[2].available
    /\ req[2].bookingCount = 0
    /\ req[2].rowsBefore = MaxBookings
    /\ \E p \in projects : p.bookingMonth = req[2].bookingMonth /\ p.status = "declined"

\* C20: a step of an availability request, its arrival, its reads and its
\* answer, in the success and in the error path, changes no Client, Project
\* or Payment and no other request: a booking in flight goes on from the
\* same store and the same position as without it.
C20_AvailabilityChangesNothing ==
    [][\A s \in Slots :
          (req'[s] # req[s] /\ req'[s].op = "availability") =>
              /\ store' = store
              /\ gateway' = gateway
              /\ \A t \in Slots \ {s} : req'[t] = req[t]]_vars

\* part_003's availability request answered from its error path while a
\* booking that has counted the month's three Projects is about to insert
\* the fourth
C20_Witness ==
    /\ AvailabilityAnswered(req[2])
    /\ req[2].h = HChecked
    /\ req[2].storeThrew
    /\ req[2].rowsBefore = 3
    /\ req[1].op = "create"
    /\ req[1].h = HChecked
    /\ req[1].pc = "createProject"
    /\ req[1].bookingCount = 3
    /\ CountNotCancelled(August) = 3

-----------------------------------------------------------------------------
(* Two approve or decline requests at a time, interleaved at their awaits.   *)

DecideMaxProjects == 1

DecideReceive ==
    \/ /\ lastProjectId < DecideMaxProjects
       /\ ReceiveBooking(1, HRouter, Ada, AdaEmail, "landing", August)
    \/ \E s \in Slots, h \in {HRouter, HServer}, op \in {"approve", "decline"},
          id \in 1..DecideMaxProjects :
          ReceiveDecision(s, h, op, id)

DecideNext ==
    \/ DecideReceive
    \/ UncheckedBookingStep(1)
    \/ \E s \in Slots : DecisionStep(s)

SpecDecide == Init /\ [][DecideNext]_vars

\* an approve or decline answered with success
DecisionSucceeded(r) == Decision(r) /\ r.pc = "done" /\ r.code = 200

\* C21 as stated: a successful approve response carries status approved and
\* a successful decline response carries status declined, also when an
\* approve and a decline of the same Project run interleaved.  server.js
\* answers with the status its reload read back, which is the other
\* request's when that one wrote in between.
C21_ResponseCarriesOwnStatus ==
    \A s \in Slots :
        DecisionSucceeded(req[s]) => req[s].outStatus = Target(req[s].op)

\* C21: what holds of routes/bookings.js, which answers with the status of
\* its own instance and does not read the row again
C21_RouterResponseCarriesOwnStatus ==
    \A s \in Slots :
        (DecisionSucceeded(req[s]) /\ req[s].h = HRouter) =>
            req[s].outStatus = Target(req[s].op)

\* server.js answers an approve with success and status declined while a
\* decline of the same Project is in flight or answered
C21_Witness ==
    /\ DecisionSucceeded(req[1])
    /\ req[1].h = HServer
    /\ req[1].op = "approve"
    /\ req[1].outStatus = "declined"
    /\ req[2].op = "decline"
    /\ req[2].id = req[1].id

-----------------------------------------------------------------------------
(* DELETE /api/clients/:id, and the foreign keys of the store                *)

\* (mutant) the foreign keys are declared without ON DELETE CASCADE and are
\* not enforced: only the Client row goes
DeleteClientNoCascade(s, id, fail) ==
    /\ Free(s)
    /\ LET r == [Idle EXCEPT !.op = "clientDelete", !.id = id]
       IN IF fail
            THEN /\ req' = [req EXCEPT ![s] = Reply(Threw(r), 500, "failed")]
                 /\ UNCHANGED clients
          ELSE IF ~(\E c \in clients : c.id = id)
            THEN /\ req' = [req EXCEPT ![s] = Reply(Touch(r), 404, "not_found")]
                 /\ UNCHANGED clients
          ELSE /\ clients' = {c \in clients : c.id # id}
               /\ req' = [req EXCEPT ![s] =
                        [Touch(r) EXCEPT !.pc = "done", !.code = 200, !.client = id]]
    /\ UNCHANGED <<projects, payments, lastClientId, lastProjectId, lastPaymentId, gateway>>

\* await Client.destroy({ where: { id } }): no row 404, a throw 500.  The
\* DELETE cascades through the foreign keys of the associations
\* (Client.hasMany(Project, onDelete CASCADE), Project.hasOne(Payment,
\* onDelete CASCADE)): the Client's Projects go, and their Payments.
\* bookingCount keeps the number of Projects the Client had, rowsBefore the
\* number of Payments of those Projects.
DeleteClient(s, id, fail) ==
    /\ Free(s)
    /\ LET gone == {p \in projects : p.clientId = id}
           goneIds == {p.id : p \in gone}
           r == [Idle EXCEPT !.op = "clientDelete", !.id = id,
                             !.bookingCount = Cardinality(gone),
                             !.rowsBefore =
                                 Cardinality({q \in payments : q.projectId \in goneIds})]
       IN IF fail
            THEN /\ req' = [req EXCEPT ![s] = Reply(Threw(r), 500, "failed")]
                 /\ UNCHANGED <<clients, projects, payments>>
          ELSE IF ~(\E c \in clients : c.id = id)
            THEN /\ req' = [req EXCEPT ![s] = Reply(Touch(r), 404, "not_found")]
                 /\ UNCHANGED <<clients, projects, payments>>
          ELSE /\ clients' = {c \in clients : c.id # id}
               /\ projects' = projects \ gone
               /\ payments' = {q \in payments : q.projectId \notin goneIds}
               /\ req' = [req EXCEPT ![s] =
                        [Touch(r) EXCEPT !.pc = "done", !.code = 200, !.client = id]]
    /\ UNCHANGED <<lastClientId, lastProjectId, lastPaymentId, gateway>>

CascadeMaxClients == 2
CascadeMaxProjects == 1
CascadeMaxPayments == 1

CascadeIntents == {1}

CascadeReceive ==
    \/ /\ lastProjectId < CascadeMaxProjects
       /\ lastClientId < CascadeMaxClients
       /\ ReceiveBooking(1, HRouter, Ada, AdaEmail, "landing", August)
    \/ /\ Cardinality(intents) < Cardinality(CascadeIntents)
       /\ lastPaymentId < CascadeMaxPayments
       /\ \E projectId \in 1..CascadeMaxProjects : ReceiveCreateIntent(1, 5000, projectId)
    \/ \E paymentIntentId \in CascadeIntents, projectId \in 1..CascadeMaxProjects :
          ReceiveConfirm(1, paymentIntentId, projectId)
    \/ \E ev \in events : ReceiveWebhook(1, ev)
    \/ /\ lastPaymentId < CascadeMaxPayments
       /\ \E projectId \in 1..CascadeMaxProjects, paymentIntentId \in CascadeIntents :
             ReceiveRecordPayment(1, projectId, paymentIntentId)

CascadeSettle ==
    \E i \in CascadeIntents, outcome \in {"succeeded", "failed"} :
        GatewaySettle(i, outcome)

\* the delete of slot 2 runs between the awaits of slot 1's request
CascadeNext ==
    \/ CascadeReceive
    \/ UncheckedBookingStep(1)
    \/ PaymentStep(1)
    \/ CascadeSettle
    \/ \E id \in 1..CascadeMaxClients, fail \in BOOLEAN : DeleteClient(2, id, fail)

SpecCascade == Init /\ [][CascadeNext]_vars

\* each Project refers to an existing Client, each Payment to an existing Project
ReferencesExist ==
    /\ \A p \in projects : \E c \in clients : c.id = p.clientId
    /\ \A q \in payments : \E p \in projects : p.id = q.projectId

\* C22: in every reachable state each Project refers to an existing Client
\* and each Payment to an existing Project, and the step that deletes a
\* Client removes exactly its Projects and the Payments of those Projects.
C22_ReferencesExistAndDeleteCascades ==
    /\ []ReferencesExist
    /\ [][\A s \in Slots :
             (req'[s] # req[s] /\ req'[s].op = "clientDelete" /\ req'[s].code = 200) =>
                 /\ ~(\E c \in clients' : c.id = req'[s].id)
                 /\ projects' = {p \in projects : p.clientId # req'[s].id}
                 /\ payments' = {q \in payments :
                                   \E p \in projects' : p.id = q.projectId}]_vars

\* a Client with a Project and a Payment has been deleted, and both are gone
C22_Witness ==
    /\ req[2].op = "clientDelete"
    /\ req[2].code = 200
    /\ req[2].bookingCount = 1
    /\ req[2].rowsBefore = 1
    /\ projects = {}
    /\ payments = {}

-----------------------------------------------------------------------------
(* POST /confirm against every status the gateway reports for an intent.     *)

ConfirmMaxProjects == 1
ConfirmMaxPayments == 1

ConfirmIntents == {1}

\* the outcomes of a payment attempt; requires_capture stands for the
\* statuses the switch of /confirm does not name
ConfirmOutcomes ==
    {"succeeded", "processing", "failed", "canceled", "requires_confirmation",
     "requires_action", "requires_capture"}

ConfirmReceive ==
    \/ /\ lastProjectId < ConfirmMaxProjects
       /\ ReceiveBooking(1, HRouter, Ada, AdaEmail, "landing", August)
    \/ /\ Cardinality(intents) < Cardinality(ConfirmIntents)
       /\ lastPaymentId < ConfirmMaxPayments
       /\ \E projectId \in 1..ConfirmMaxProjects : ReceiveCreateIntent(1, 5000, projectId)
    \/ \E paymentIntentId \in ConfirmIntents, projectId \in 0..ConfirmMaxProjects :
          ReceiveConfirm(1, paymentIntentId, projectId)
    \/ \E ev \in events : ReceiveWebhook(1, ev)
    \/ /\ lastPaymentId < ConfirmMaxPayments
       /\ \E projectId \in 1..ConfirmMaxProjects, paymentIntentId \in ConfirmIntents :
             ReceiveRecordPayment(1, projectId, paymentIntentId)

ConfirmSettle ==
    \E i \in ConfirmIntents, outcome \in ConfirmOutcomes : GatewaySettle(i, outcome)

ConfirmNext ==
    \/ ConfirmReceive
    \/ UncheckedBookingStep(1)
    \/ PaymentStep(1)
    \/ ConfirmSettle

SpecConfirm == Init /\ [][ConfirmNext]_vars

\* the paymentStatus the statement gives for a gateway status
StatedPaymentStatus(gwStatus) ==
    IF gwStatus = "succeeded" THEN "completed"
    ELSE IF gwStatus \in {"processing", "requires_payment_method",
                          "requires_confirmation", "requires_action"} THEN "pending"
    ELSE "failed"

\* C23: POST /confirm stores for the Payment it found the paymentStatus
\* derived from the gateway's intent status (completed for succeeded;
\* pending for processing, requires_payment_method, requires_confirmation
\* and requires_action; failed for canceled and every other status), and a
\* step of the request writes the Project, and the request reaches that
\* write, only when the derived status is completed and a projectId was
\* supplied.
C23_ConfirmDerivesPaymentStatus ==
    /\ [](\A s \in Slots :
            LET r == req[s] IN
            (r.op = "confirm" /\ r.pc \in {"cfProject", "done"}
                /\ (r.pc = "done" => r.code = 200))
            => /\ r.status = StatedPaymentStatus(r.gwStatus)
               /\ \E q \in payments : q.id = r.payment /\ q.paymentStatus = r.status
               /\ r.pc = "cfProject" => (r.status = "completed" /\ r.id # 0)
               /\ r.pc = "done" => (r.paid <=> (r.status = "completed" /\ r.id # 0)))
    /\ [][\A s \in Slots :
             (req'[s] # req[s] /\ req'[s].op = "confirm" /\ projects' # projects) =>
                 /\ StatedPaymentStatus(req'[s].gwStatus) = "completed"
                 /\ req'[s].id # 0]_vars

\* /confirm found the intent in a status its switch does not name: the
\* Payment is failed and the Project supplied with the request is untouched
C23_Witness ==
    /\ req[1].op = "confirm" /\ req[1].pc = "done" /\ req[1].code = 200
    /\ req[1].gwStatus = "requires_capture"
    /\ req[1].id # 0
    /\ \E q \in payments : q.id = req[1].payment /\ q.paymentStatus = "failed"
    /\ projects = req[1].before.projects
    /\ StatusIn(projects, req[1].id) = "pending"

\* an approve or decline of server.js answered 500 after its three methods
AnsweredAllFailed(r) ==
    Decision(r) /\ r.h = HServer /\ r.pc = "done" /\ r.error = "all_methods_failed"

\* C24 as stated, for one request at a time: the approve and decline of
\* server.js answer success exactly when one of the three methods has stored
\* the status, and answer 500 with the stored status unchanged exactly when
\* all three failed.  Method 3 fails after its UPDATE has been applied when
\* the SELECT that verifies it throws.
C24_AllFailedLeavesStatus ==
    \A s \in Slots :
        LET r == req[s] IN
        /\ (DecisionSucceeded(r) /\ r.h = HServer) =>
               StatusIn(projects, r.id) = Target(r.op)
        /\ AnsweredAllFailed(r) =>
               /\ r.code = 500
               /\ StatusIn(projects, r.id) = StatusIn(r.before.projects, r.id)

\* C24: what holds of the code: a success answer of server.js follows a
\* method that stored the status, and the all-methods-failed answer is a 500
C24_SuccessMeansStored ==
    \A s \in Slots :
        LET r == req[s] IN
        /\ (DecisionSucceeded(r) /\ r.h = HServer) =>
               (r.saved /\ StatusIn(projects, r.id) = Target(r.op))
        /\ AnsweredAllFailed(r) => (r.code = 500 /\ ~r.saved)

\* an approve of a pending Project answered 500 "all update methods failed"
\* while the Project is stored as approved
C24_Witness ==
    /\ AnsweredAllFailed(req[1])
    /\ req[1].op = "approve"
    /\ req[1].code = 500
    /\ StatusIn(req[1].before.projects, req[1].id) = "pending"
    /\ StatusIn(projects, req[1].id) = "approved"

\* the notification of an approve or decline has been attempted
Notified(r) == r.emailSent \/ r.emailThrew

\* C25: the step that dispatches the approval or decline notification is
\* taken only by a request whose status update has succeeded, with the
\* status approved or declined in the store; a request whose status update
\* failed ends without a notification.
C25_NotifiesOnlyAfterPersisting ==
    /\ [][\A s \in Slots :
             (Decision(req[s]) /\ req'[s].op = req[s].op
                 /\ ~Notified(req[s]) /\ Notified(req'[s])) =>
                 /\ req[s].saved
                 /\ StatusIn(projects, req[s].id) = Target(req[s].op)]_vars
    /\ [](\A s \in Slots :
            (Decision(req[s]) /\ req[s].pc = "done" /\ ~req[s].saved) =>
                ~Notified(req[s]))

\* server.js has sent the approval after Method 3 stored the status
C25_Witness ==
    /\ DecisionSucceeded(req[1])
    /\ req[1].h = HServer
    /\ req[1].op = "approve"
    /\ req[1].storeThrew
    /\ req[1].emailSent
    /\ StatusIn(req[1].before.projects, req[1].id) = "pending"
    /\ StatusIn(projects, req[1].id) = "approved"

-----------------------------------------------------------------------------
(* Payments among two Projects, one request at a time.                       *)

OwnerMaxProjects == 2
OwnerMaxPayments == 1

OwnerIntents == {1}

OwnerReceive ==
    \/ /\ lastProjectId < OwnerMaxProjects
       /\ ReceiveBooking(1, HRouter, Ada, AdaEmail, "landing", August)
    \/ /\ Cardinality(intents) < Cardinality(OwnerIntents)
       /\ lastPaymentId < OwnerMaxPayments
       /\ \E projectId \in 1..OwnerMaxProjects : ReceiveCreateIntent(1, 5000, projectId)
    \/ \E paymentIntentId \in OwnerIntents, projectId \in 0..OwnerMaxProjects :
          ReceiveConfirm(1, paymentIntentId, projectId)
    \/ \E ev \in events : ReceiveWebhook(1, ev)
    \/ /\ lastPaymentId < OwnerMaxPayments
       /\ \E projectId \in 1..OwnerMaxProjects, paymentIntentId \in OwnerIntents :
             ReceiveRecordPayment(1, projectId, paymentIntentId)

OwnerSettle ==
    \E i \in OwnerIntents, outcome \in {"succeeded", "failed"} :
        GatewaySettle(i, outcome)

OwnerNext ==
    \/ OwnerReceive
    \/ UncheckedBookingStep(1)
    \/ PaymentStep(1)
    \/ OwnerSettle

SpecOwner == Init /\ [][OwnerNext]_vars

\* the Project that owns Payment id (its projectId), 0 when there is no such row
OwnerOf(id) ==
    IF \E q \in payments : q.id = id
      THEN (CHOOSE q \in payments : q.id = id).projectId
      ELSE 0

\* C26 as stated: a successful POST /confirm changes the status of no
\* Project other than the one that owns the confirmed Payment.  The handler
\* updates the Project named by the request's projectId, which need not be
\* the Payment's.
C26_ConfirmMovesOnlyOwner ==
    \A s \in Slots :
        LET r == req[s] IN
        (r.op = "confirm" /\ r.pc = "done" /\ r.code = 200) =>
            \A p \in projects :
                p.status # StatusIn(r.before.projects, p.id) => p.id = OwnerOf(r.payment)

\* C26: what holds of the code: a successful /confirm changes no Project
\* other than the one its request names
C26_ConfirmMovesOnlyNamed ==
    \A s \in Slots :
        LET r == req[s] IN
        (r.op = "confirm" /\ r.pc = "done" /\ r.code = 200) =>
            \A p \in projects :
                p.status # StatusIn(r.before.projects, p.id) => p.id = r.id

\* /confirm of the Payment of Project 1, sent with projectId 2, has moved
\* Project 2 to in_progress and left Project 1 pending
C26_Witness ==
    /\ req[1].op = "confirm" /\ req[1].pc = "done" /\ req[1].code = 200
    /\ OwnerOf(req[1].payment) = 1
    /\ req[1].id = 2
    /\ StatusIn(req[1].before.projects, 2) = "pending"
    /\ StatusIn(projects, 2) = "in_progress"
    /\ StatusIn(projects, 1) = "pending"

\* C27 as stated: once a Payment's paymentStatus is completed, no step
\* changes it back to pending or failed, whatever the order in which
\* confirmations and webhook events for the Payment are delivered.  The
\* payment_intent.payment_failed branch of the webhook and the payment update
\* of /confirm write without reading the stored paymentStatus.
C27_CompletedNeverReverts ==
    [][\A q \in payments :
          q.paymentStatus = "completed" =>
              \A n \in payments' :
                  n.id = q.id => n.paymentStatus \notin {"pending", "failed"}]_vars

\* C27: what holds of the code: the payment_intent.succeeded branch of the
\* webhook never takes a completed Payment back
C27_SucceededEventKeepsCompleted ==
    [][\A s \in Slots :
          (req'[s] # req[s] /\ req'[s].op = "webhook" /\ req'[s].event = Succeeded) =>
              \A q \in payments :
                  q.paymentStatus = "completed" =>
                      \A n \in payments' : n.id = q.id => n.paymentStatus = "completed"]_vars

\* the payment_intent.payment_failed event, delivered when the one Payment of
\* the intent was completed and the intent has succeeded, has set it to failed
C27_Witness ==
    /\ req[1].op = "webhook" /\ req[1].pc = "done" /\ req[1].code = 200
    /\ req[1].event = PaymentFailed
    /\ req[1].completedBefore
    /\ \A q \in RowsOf(req[1].intent) : q.paymentStatus = "failed"
    /\ RowsOf(req[1].intent) # {}
    /\ lastPaymentId = 1
    /\ \E it \in intents : it.id = req[1].intent /\ it.status = "succeeded"

\* Project p has a Payment with paymentStatus completed
HasCompletedPayment(p) ==
    \E q \in payments : q.projectId = p.id /\ q.paymentStatus = "completed"

\* C28 as stated: in every reachable state a Project with status in_progress
\* has at least one Payment with paymentStatus completed.  A completed
\* Payment can be set back (C27), /confirm can move a Project that does not
\* own the Payment (C26), and the webhook moves the Project also when its
\* Payment update matched no row.
C28_InProgressHasCompletedPayment ==
    \A p \in projects : p.status = "in_progress" => HasCompletedPayment(p)

\* C28: what holds of the code: when POST /confirm of routes/payments.js has
\* answered with success, the Project it moved has the completed Payment the
\* request created
C28_RecordedPaymentIsCompleted ==
    \A s \in Slots :
        LET r == req[s] IN
        (r.op = "recordPayment" /\ r.pc = "done" /\ r.code = 200) =>
            \E q \in payments :
                q.id = r.payment /\ q.projectId = r.id /\ q.paymentStatus = "completed"

\* the Project is in_progress and its only Payment is failed
C28_Witness ==
    /\ \E p \in projects :
          /\ p.status = "in_progress"
          /\ \E q \in payments : q.projectId = p.id
          /\ \A q \in payments : q.projectId = p.id => q.paymentStatus = "failed"
    /\ req[1].pc = "done"

\* a booking of part_003 whose capacity count threw: the count was due and
\* has left no number
CountThrew(r) ==
    /\ r.op = "create" /\ r.h = HChecked
    /\ IsMainProject(r.projectType, r.bookingMonth)
    /\ r.storeThrew
    /\ r.bookingCount = -1

\* C29: when the capacity count of a CreateBooking of part_003 throws, the
\* step answers nothing and goes on to the client lookup with the store
\* untouched; the request is never answered "fully booked", and it ends
\* with 201 and its Project stored unless a later store call fails, however
\* many Projects the month holds.
C29_CountFailureGoesOn ==
    /\ [][\A s \in Slots :
             (req[s].op = "create" /\ req[s].h = HChecked /\ req[s].pc = "count"
                 /\ req'[s] # req[s] /\ req'[s].storeThrew) =>
                 /\ req'[s].pc = "findClient"
                 /\ store' = store]_vars
    /\ [](\A s \in Slots :
            LET r == req[s] IN
            (Answered(r) /\ CountThrew(r)) =>
                /\ r.error # "fully_booked"
                /\ r.code = 201 \/ r.error \in {"client_failed", "project_failed"}
                /\ r.code = 201 =>
                      \E p \in projects :
                          p.id = r.outProjectId /\ p.bookingMonth = r.bookingMonth)

\* the count threw, the month already held four Projects, and the booking
\* was created as the fifth
C29_Witness ==
    /\ Answered(req[1]) /\ CountThrew(req[1])
    /\ req[1].code = 201
    /\ CountBefore(req[1]) = MaxBookings
    /\ CountNotCancelled(req[1].bookingMonth) = MaxBookings + 1

\* a booking request answered with an error
BookingFailed(r) == Answered(r) /\ r.code >= 400

\* C30 as stated: a CreateBooking that ends in an error response has added
\* neither a Client nor a Project.  findOrCreate and Project.create run
\* without a transaction: the Client inserted for the request stays when
\* the Project insert fails.
C30_ErrorLeavesStoreUnchanged ==
    \A s \in Slots :
        BookingFailed(req[s]) =>
            /\ clients = req[s].before.clients
            /\ projects = req[s].before.projects

\* C30: what holds of the code: a CreateBooking of routes/bookings.js or
\* part_003 that ends in an error response has added no Project
C30_ErrorAddsNoProject ==
    \A s \in Slots :
        (BookingFailed(req[s]) /\ req[s].h \in {HRouter, HChecked}) =>
            projects = req[s].before.projects

\* the Project insert failed, the request was answered 500, and the Client
\* created for it is in the store
C30_Witness ==
    /\ BookingFailed(req[1])
    /\ req[1].h \in {HRouter, HChecked}
    /\ req[1].code = 500
    /\ req[1].error = "project_failed"
    /\ req[1].before.clients = {}
    /\ \E c \in clients : c.id = req[1].client /\ c.email = req[1].clientEmail
    /\ projects = req[1].before.projects

=============================================================================
